---------------------------- MODULE Spec2Model ----------------------------
(***************************************************************************)
(* A model of src/bson-to-json.cc: the Transcoder (BSON reader, JSON       *)
(* writer, output buffer manager) and the two ways it is driven:           *)
(*   - bsonToJson: one synchronous transcode call in REALLOC mode;         *)
(*   - BJTrans: a worker thread running transcode in PAUSE mode and the    *)
(*     host thread calling the iterator's next().                          *)
(* Bytes are integers 0..255.  Values wider than 31 bits (int64, and the   *)
(* extremes of int32) are kept as little-endian byte sequences, because    *)
(* the checker's integers are 32 bits wide.                                *)
(***************************************************************************)
EXTENDS Integers, Sequences, FiniteSets, TLC

(***************************************************************************)
(* Bounds of the model.                                                    *)
(***************************************************************************)
\* how many times realloc may fail in one run
MaxAllocFail == 1
\* how many spurious wake-ups of a condition-variable wait may occur in one run
MaxSpurious == 1
\* how many chunks the host takes in one run
MaxCalls == 4
\* how many times the host accesses the Transcoder while the worker runs
MaxRaces == 1

(***************************************************************************)
(* Program constants.                                                      *)
(***************************************************************************)
BSON_DATA_NUMBER == 1
BSON_DATA_STRING == 2
BSON_DATA_OBJECT == 3
BSON_DATA_ARRAY == 4
BSON_DATA_BINARY == 5
BSON_DATA_UNDEFINED == 6
BSON_DATA_OID == 7
BSON_DATA_BOOLEAN == 8
BSON_DATA_DATE == 9
BSON_DATA_NULL == 10
BSON_DATA_REGEXP == 11
BSON_DATA_DBPOINTER == 12
BSON_DATA_CODE == 13
BSON_DATA_SYMBOL == 14
BSON_DATA_CODE_W_SCOPE == 15
BSON_DATA_INT == 16
BSON_DATA_TIMESTAMP == 17
BSON_DATA_LONG == 18
BSON_DATA_DECIMAL128 == 19
BSON_DATA_MIN_KEY == 255
BSON_DATA_MAX_KEY == 127

\* the double converter's scratch window
kBufferSize == 128

ErrNone == "none"
ErrSize == "BSON size must be >=5"
ErrExceeds == "BSON size exceeds input length."
ErrString == "Bad string length"
ErrArrayTerm == "Invalid array terminator byte"
ErrIncompatible == "BSON type incompatible with JSON"
ErrUnknown == "Unknown BSON type"
ErrAlloc == "Allocation failure"

\* the instruction-set tiers the code is specialised for, lowest first
ISAs == <<"BASELINE", "SSE2", "SSE42", "AVX2">>

(***************************************************************************)
(* Bytes and byte sequences.                                               *)
(***************************************************************************)
Min(a, b) == IF a < b THEN a ELSE b
Max(a, b) == IF a < b THEN b ELSE a

\* the ASCII code of the one-character strings the writer emits
Chr(c) ==
  CASE c = "\"" -> 34 [] c = "," -> 44 [] c = "-" -> 45 [] c = "." -> 46
    [] c = "0" -> 48 [] c = "1" -> 49 [] c = ":" -> 58 [] c = "T" -> 84
    [] c = "Z" -> 90 [] c = "[" -> 91 [] c = "\\" -> 92 [] c = "]" -> 93
    [] c = "b" -> 98 [] c = "f" -> 102 [] c = "n" -> 110 [] c = "r" -> 114
    [] c = "t" -> 116 [] c = "u" -> 117 [] c = "{" -> 123 [] c = "}" -> 125

TextNull == <<110, 117, 108, 108>>
TextTrue == <<116, 114, 117, 101>>
TextFalse == <<102, 97, 108, 115, 101>>

\* two's complement negation of a little-endian byte sequence (0 - val,
\* wrapping at the width of the sequence)
NegB(b) ==
  LET inv == [j \in 1..Len(b) |-> 255 - b[j]]
  IN  [j \in 1..Len(b) |->
         IF \A k \in 1..(j - 1) : inv[k] = 255 THEN (inv[j] + 1) % 256 ELSE inv[j]]

\* the sign bit of a little-endian two's complement byte sequence
IsNegB(b) == b[Len(b)] >= 128

\* the remainder modulo d of the number held by bytes j..Len(b) of b
RECURSIVE RemHi(_, _, _)
RemHi(b, d, j) == IF j > Len(b) THEN 0 ELSE (RemHi(b, d, j + 1) * 256 + b[j]) % d

\* unsigned quotient and remainder of a little-endian byte sequence by d
QuotB(b, d) == [j \in 1..Len(b) |-> (RemHi(b, d, j + 1) * 256 + b[j]) \div d]
ModB(b, d) == RemHi(b, d, 1)

\* unsigned comparison of a byte sequence with a number below 256
GeB(b, c) == (\E j \in 2..Len(b) : b[j] # 0) \/ b[1] >= c

\* the int32 held by four little-endian bytes
S32(b) == b[1] + 256 * b[2] + 65536 * b[3]
            + 16777216 * (IF b[4] >= 128 THEN b[4] - 256 ELSE b[4])

\* the little-endian bytes of an int32
LE32(v) ==
  LET hi == v \div 16777216
      lo == v % 16777216
  IN  <<lo % 256, (lo \div 256) % 256, lo \div 65536, (hi + 256) % 256>>

(***************************************************************************)
(* fast_itoa.  val is a little-endian two's complement byte sequence of    *)
(* the width of T.  "val = 0 - val" overflows for the minimum of T, which  *)
(* is undefined behaviour of signed arithmetic: ub names the outcome of    *)
(* the build, "wrap" (val keeps the minimum, a negative number) or         *)
(* "unsigned" (the compiler, knowing val >= 0, divides and compares        *)
(* unsigned).                                                              *)
(***************************************************************************)
ItoaOutcomes == {"wrap", "unsigned"}

\* the lookup table of two-digit pairs, "000102...99"
digits(k) == IF k % 2 = 0 THEN 48 + ((k \div 2) \div 10) ELSE 48 + ((k \div 2) % 10)

\* the loop and the tail of fast_itoa on a non-negative val, most significant first
RECURSIVE ItoaDigits(_)
ItoaDigits(val) ==
  IF GeB(val, 100)
    THEN LET index == ModB(val, 100) * 2
         IN  ItoaDigits(QuotB(val, 100)) \o <<digits(index), digits(index + 1)>>
    ELSE IF ~GeB(val, 10)
      THEN <<48 + val[1]>>
      ELSE <<digits(val[1] * 2), digits(val[1] * 2 + 1)>>

\* whether 0 - val overflows T
ItoaOverflows(val) == IsNegB(val) /\ IsNegB(NegB(val))
ItoaUb(val) == IF ItoaOverflows(val) THEN {"signedOverflow"} ELSE {}

fast_itoa(val, ub) ==
  LET isNegative == IsNegB(val)
      v == IF isNegative THEN NegB(val) ELSE val
      body == IF isNegative /\ IsNegB(v) /\ ub = "wrap"
                THEN \* val is still negative: no loop, val < 10, '0' + val as uint8_t
                     <<(48 + v[1]) % 256>>
                ELSE ItoaDigits(v)
  IN  (IF isNegative THEN <<Chr("-")>> ELSE <<>>) \o body

(***************************************************************************)
(* getEscape, hexNib, writeControlChar, nDigits.                           *)
(***************************************************************************)
getEscape(c) ==
  CASE c = 8 -> Chr("b") [] c = 9 -> Chr("t") [] c = 10 -> Chr("n")
    [] c = 12 -> Chr("f") [] c = 13 -> Chr("r") [] c = 34 -> c [] c = 92 -> c
    [] OTHER -> 0

hexNib(nib) == IF nib < 10 THEN 48 + nib ELSE 87 + nib

\* the six bytes written by writeControlChar(c)
ControlChar(c) ==
  <<Chr("\\"), Chr("u"), Chr("0"), Chr("0"),
    IF (c \div 16) # 0 THEN Chr("1") ELSE Chr("0"), hexNib(c % 16)>>

nDigits(v) ==
  IF v < 10 THEN 2 ELSE IF v < 100 THEN 3 ELSE IF v < 1000 THEN 4
  ELSE IF v < 10000 THEN 5 ELSE IF v < 100000 THEN 6 ELSE IF v < 1000000 THEN 7
  ELSE IF v < 10000000 THEN 8 ELSE IF v < 100000000 THEN 9
  ELSE IF v < 1000000000 THEN 10 ELSE 11

(***************************************************************************)
(* The double converter and the C library's gmtime/strftime.               *)
(***************************************************************************)
\* std::isfinite on the eight little-endian bytes of a double
IsFinite(b) == ~(b[8] % 128 = 127 /\ b[7] >= 240)

\* DoubleToStringConverter::EcmaScriptConverter().ToShortest: the text of the
\* doubles the inputs of this model hold (0, 1.5, -2); "0" stands for any other
ToShortest(b) ==
  CASE b = <<0, 0, 0, 0, 0, 0, 248, 63>> -> <<49, 46, 53>>
    [] b = <<0, 0, 0, 0, 0, 0, 0, 192>> -> <<45, 50>>
    [] OTHER -> <<48>>

\* the number held by a little-endian byte sequence that fits 31 bits
ToInt(b) == b[1] + 256 * b[2] + 65536 * b[3] + 16777216 * b[4]
FitsInt(b) == b[4] < 128 /\ \A j \in 5..Len(b) : b[j] = 0

\* two decimal digits, and four
Dec2(v) == <<48 + (v \div 10), 48 + (v % 10)>>
Dec4(v) == Dec2(v \div 100) \o Dec2(v % 100)

\* strftime(.., 24, "%FT%T", gmtime(&seconds)) for years 0000..9999
StrfTime(seconds) ==
  LET days == seconds \div 86400
      sod == seconds % 86400
      z == days + 719468
      era == z \div 146097
      doe == z - era * 146097
      yoe == (doe - (doe \div 1460) + (doe \div 36524) - (doe \div 146096)) \div 365
      doy == doe - (365 * yoe + (yoe \div 4) - (yoe \div 100))
      mp == (5 * doy + 2) \div 153
      d == doy - ((153 * mp + 2) \div 5) + 1
      m == IF mp < 10 THEN mp + 3 ELSE mp - 9
      y == yoe + era * 400 + (IF m <= 2 THEN 1 ELSE 0)
  IN  Dec4(y) \o <<Chr("-")>> \o Dec2(m) \o <<Chr("-")>> \o Dec2(d) \o <<Chr("T")>>
        \o Dec2(sod \div 3600) \o <<Chr(":")>> \o Dec2((sod % 3600) \div 60)
        \o <<Chr(":")>> \o Dec2(sod % 60)

\* value / 1000 and value % 1000 of the int64 value, truncating towards zero
DateSeconds(value) ==
  IF IsNegB(value) THEN 0 - ToInt(QuotB(NegB(value), 1000))
                   ELSE ToInt(QuotB(value, 1000))
DateMillis(value) ==
  IF IsNegB(value) THEN 0 - ModB(NegB(value), 1000) ELSE ModB(value, 1000)
DateInRange(value) ==
  FitsInt(QuotB(IF IsNegB(value) THEN NegB(value) ELSE value, 1000))

\* the three bytes written after '.': n < 3 ? '0' : *temp_p++, and so on
DateFraction(millis, ub) ==
  LET t == fast_itoa(LE32(millis), ub)
      n == Len(t)
      p2 == IF n < 3 THEN 1 ELSE 2
      p3 == IF n < 2 THEN p2 ELSE p2 + 1
  IN  <<IF n < 3 THEN Chr("0") ELSE t[1],
        IF n < 2 THEN Chr("0") ELSE t[p2],
        IF n < 1 THEN Chr("0") ELSE t[p3]>>

(***************************************************************************)
(* Reading the input.  A read at an index >= inLen is outside the input:   *)
(* it yields the byte g the caller chose (whatever memory holds there) and *)
(* is recorded as "oobRead".                                               *)
(***************************************************************************)
Rd(inp, i, g) == IF i < Len(inp) THEN inp[i + 1] ELSE g

\* readLE<T>: the sizeof(T) bytes at inIdx
readLE(inp, i, k, g) == [j \in 1..k |-> Rd(inp, i + j - 1, g)]

OobRead(inp, i, k) == IF i + k > Len(inp) THEN {"oobRead"} ELSE {}
\* a 16- or 32-byte vector load that runs past the input
OverRead(inp, i, k) == IF i + k > Len(inp) THEN {"simdOverread"} ELSE {}

(***************************************************************************)
(* The per-lane predicates of the vector escape writers.                   *)
(***************************************************************************)
\* c < 0x20 || c == 0x22 || c == 0x5c, the compare done unsigned (xor 0x80)
EscUnsigned(c) == c < 32 \/ c = 34 \/ c = 92

\* _mm256_cmpgt_epi8(esch20, chars) without the xor: a signed compare
EscSigned(c) == (IF c >= 128 THEN c - 256 ELSE c) < 32 \/ c = 34 \/ c = 92

\* the ranges of the SSE4.2 writers: bounded (escape these) and
\* null-terminated (copy these)
RangesBounded == <<<<0, 31>>, <<34, 34>>, <<92, 92>>>>
RangesCstr == <<<<32, 33>>, <<35, 91>>, <<93, 255>>>>
InRanges(c, rs) == \E k \in 1..Len(rs) : rs[k][1] <= c /\ c <= rs[k][2]

\* the index of the first lane of blk that satisfies P, or none
FirstLane(blk, P(_), none) ==
  IF \E k \in 1..Len(blk) : P(blk[k])
    THEN (CHOOSE k \in 1..Len(blk) : P(blk[k]) /\ \A j \in 1..(k - 1) : ~P(blk[j])) - 1
    ELSE none

\* _mm_cmpestri(escapes, 6, chars, n, RANGES | POSITIVE_POLARITY | LEAST_SIGNIFICANT)
cmpestri(blk, n) ==
  LET valid == SubSeq(blk, 1, Min(n, 16))
      Hit(c) == InRanges(c, RangesBounded)
  IN  FirstLane(valid, Hit, 16)

\* _mm_cmpistri(escapes, chars, RANGES | NEGATIVE_POLARITY | LEAST_SIGNIFICANT):
\* the lanes from the first 0x00 on are invalid, and the negation sets them
cmpistri(blk) ==
  LET Miss(c) == c = 0 \/ ~InRanges(c, RangesCstr)
  IN  FirstLane(blk, Miss, 16)

\* the tier whose overload the call resolves to (Enabler<isa> derives from
\* Enabler<isa - 1>, so a missing overload falls to the next lower tier)
TierCstr(isa) == IF isa = "SSE2" THEN "BASELINE" ELSE isa
TierOid(isa) == IF isa = "AVX2" THEN "AVX2" ELSE "BASELINE"

\* the escape of one byte c and the space it asks for with `rest` bytes to go
\* (the scalar branch shared by the bounded writers)
EscapeBytes(c) ==
  IF getEscape(c) # 0 THEN <<Chr("\\"), getEscape(c)>> ELSE ControlChar(c)

(***************************************************************************)
(* The document walker, transcodeObject.  The walker is cut into segments: *)
(* a segment is the code from one label to the next call of ensureSpace    *)
(* (or to a return).  A segment's result says where the walker is next     *)
(* (pc), what it asks of ensureSpace (need, -1 for no call), the bytes it  *)
(* writes once ensureSpace has returned false (pend; bulk when they are    *)
(* stored by one memcpy or vector store, of span bytes), and where control *)
(* goes when ensureSpace returns true (fpc).                               *)
(*   w: the walker's locals: pc, the stack of transcodeObject frames       *)
(*      (isArray, arrIdx), elementType, and end and n of writeEscapedChars.*)
(*   i: inIdx.   g: the byte a read outside the input yields.              *)
(*   ub: the outcome of fast_itoa's overflow.                              *)
(***************************************************************************)
Top(w) == w.stack[Len(w.stack)]
Pop(w) == SubSeq(w.stack, 1, Len(w.stack) - 1)
Frame(isArray) == [isArray |-> isArray, arrIdx |-> 0]

R0(w, i) ==
  [pc |-> w.pc, stack |-> w.stack, elType |-> w.elType, end |-> w.end, n |-> w.n,
   fpc |-> "unwind", inIdx |-> i, need |-> -1, pend |-> <<>>, bulk |-> FALSE,
   span |-> 0, err |-> ErrNone, ub |-> {}]

\* lines 626-639: the size checks and the opening bracket
SegDoc(inp, w, i, g) ==
  LET size == S32(readLE(inp, i, 4, g))
      r == [R0(w, i) EXCEPT !.inIdx = i + 4, !.ub = OobRead(inp, i, 4)]
  IN  IF size < 5 THEN [r EXCEPT !.err = ErrSize, !.pc = "unwind"]
      ELSE IF size > Len(inp) THEN [r EXCEPT !.err = ErrExceeds, !.pc = "unwind"]
      ELSE [r EXCEPT !.need = 1, !.pc = "elem",
                     !.pend = <<IF Top(w).isArray THEN Chr("[") ELSE Chr("{")>>]

\* lines 642-648 and 797-798: the element type, the separator, the closing bracket
SegElem(inp, w, i, g) ==
  LET elementType == Rd(inp, i, g)
      r == [R0(w, i) EXCEPT !.inIdx = i + 1, !.ub = OobRead(inp, i, 1)]
  IN  IF elementType = 0
        THEN [r EXCEPT !.need = 1, !.pc = "ret",
                       !.pend = <<IF Top(w).isArray THEN Chr("]") ELSE Chr("}")>>]
      ELSE IF Top(w).arrIdx # 0
        THEN [r EXCEPT !.elType = elementType, !.need = 1, !.pend = <<Chr(",")>>,
                       !.pc = "name"]
      ELSE [r EXCEPT !.elType = elementType, !.pc = "name"]

\* line 794, then the loop's next iteration
SegNext(inp, w, i, g) ==
  SegElem(inp, [w EXCEPT !.stack[Len(w.stack)].arrIdx = @ + 1], i, g)

\* lines 651-661: the opening quote of the name, or the skip of an array index
SegName(inp, w, i, g) ==
  IF ~Top(w).isArray
    THEN [R0(w, i) EXCEPT !.need = 1, !.pend = <<Chr("\"")>>, !.pc = "nameEsc"]
    ELSE [R0(w, i) EXCEPT !.inIdx = i + nDigits(Top(w).arrIdx), !.pc = "value"]

\* one iteration of writeEscapedChars(Enabler<ISA::BASELINE>), lines 463-483
CstrBaseline(inp, w, i, g) ==
  LET c == Rd(inp, i, g)
      r == [R0(w, i) EXCEPT !.ub = OobRead(inp, i, 1), !.fpc = "afterName"]
  IN  IF c = 0 THEN [r EXCEPT !.pc = "afterName"]
      ELSE IF c >= 32 /\ c # 34 /\ c # 92
        THEN [r EXCEPT !.inIdx = i + 1, !.need = 1, !.pend = <<c>>]
      ELSE [r EXCEPT !.inIdx = i + 1, !.need = Len(EscapeBytes(c)),
                     !.pend = EscapeBytes(c)]

\* the head of one iteration of writeEscapedChars(Enabler<ISA::SSE42>), lines
\* 491-500, and of writeEscapedChars(Enabler<ISA::AVX2>), lines 529-543: the
\* load, the scan, ENSURE_SPACE_OR_RETURN(esRIdx) and the store
CstrVector(inp, isa, w, i, g) ==
  LET width == IF isa = "AVX2" THEN 32 ELSE 16
      chars == readLE(inp, i, width, g)
      esRIdx == IF isa = "AVX2" THEN FirstLane(chars, EscSigned, 32)
                                ELSE cmpistri(chars)
  IN  IF ~(i < Len(inp))
        THEN [R0(w, i) EXCEPT !.pc = "afterName"]
        ELSE [R0(w, i) EXCEPT !.need = esRIdx, !.pend = SubSeq(chars, 1, esRIdx),
                              !.bulk = TRUE, !.span = width, !.n = esRIdx,
                              !.pc = "nameEsc2", !.fpc = "afterName",
                              !.ub = OverRead(inp, i, width)]

SegNameEsc(inp, isa, w, i, g) ==
  IF TierCstr(isa) = "BASELINE" THEN CstrBaseline(inp, w, i, g)
                                ELSE CstrVector(inp, isa, w, i, g)

\* the tail of that iteration, lines 499-516 and 542-559: the cursors advance
\* by esRIdx, then the byte that stopped the scan
SegNameEsc2(inp, isa, w, i, g) ==
  LET width == IF isa = "AVX2" THEN 32 ELSE 16
      i1 == i + w.n
      c == Rd(inp, i1, g)
      r == [R0(w, i) EXCEPT !.inIdx = i1, !.fpc = "afterName"]
  IN  IF w.n < width
        THEN IF c = 0
               THEN [r EXCEPT !.pc = "afterName", !.ub = OobRead(inp, i1, 1)]
               ELSE [r EXCEPT !.inIdx = i1 + 1, !.need = Len(EscapeBytes(c)),
                              !.pend = EscapeBytes(c), !.pc = "nameEsc",
                              !.ub = OobRead(inp, i1, 1)]
        ELSE [r EXCEPT !.pc = "nameEsc"]

\* lines 655-658: the terminator is skipped whatever writeEscapedChars returned
SegAfterName(inp, w, i, g) ==
  [R0(w, i) EXCEPT !.inIdx = i + 1, !.need = 2, !.pend = <<Chr("\""), Chr(":")>>,
                   !.pc = "value"]

UnsupportedTypes ==
  {BSON_DATA_DECIMAL128, BSON_DATA_BINARY, BSON_DATA_REGEXP, BSON_DATA_SYMBOL,
   BSON_DATA_TIMESTAMP, BSON_DATA_MIN_KEY, BSON_DATA_MAX_KEY, BSON_DATA_CODE,
   BSON_DATA_CODE_W_SCOPE, BSON_DATA_DBPOINTER}

\* lines 776-791: the cases of the switch that reject the element
SegReject(w, i, elementType) ==
  IF elementType \in UnsupportedTypes
    THEN [R0(w, i) EXCEPT !.err = ErrIncompatible, !.pc = "unwind"]
    ELSE [R0(w, i) EXCEPT !.err = ErrUnknown, !.pc = "unwind"]

\* lines 663-775: the cases of the switch up to their first ensureSpace
SegValue(inp, w, i, g, ub) ==
  LET t == w.elType
      r == R0(w, i)
      b4 == readLE(inp, i, 4, g)
      b8 == readLE(inp, i, 8, g)
  IN  CASE t = BSON_DATA_STRING ->
             LET size == S32(b4)
                 i4 == i + 4
                 r4 == [r EXCEPT !.inIdx = i4, !.ub = OobRead(inp, i, 4)]
             IN  IF size <= 0 \/ (i4 <= Len(inp) /\ size > Len(inp) - i4)
                   THEN [r4 EXCEPT !.err = ErrString, !.pc = "unwind"]
                   ELSE [r4 EXCEPT !.need = 1, !.pend = <<Chr("\"")>>,
                                   !.n = size - 1, !.pc = "strBegin"]
        [] t = BSON_DATA_OID -> [r EXCEPT !.need = 26, !.pc = "oid"]
        [] t = BSON_DATA_INT ->
             [r EXCEPT !.inIdx = i + 4, !.ub = OobRead(inp, i, 4) \cup ItoaUb(b4),
                       !.need = Len(fast_itoa(b4, ub)), !.pend = fast_itoa(b4, ub),
                       !.bulk = TRUE, !.pc = "next"]
        [] t = BSON_DATA_NUMBER ->
             IF IsFinite(b8)
               THEN [r EXCEPT !.inIdx = i + 8, !.ub = OobRead(inp, i, 8),
                              !.need = kBufferSize, !.pend = ToShortest(b8),
                              !.bulk = TRUE, !.pc = "next"]
               ELSE [r EXCEPT !.inIdx = i + 8, !.ub = OobRead(inp, i, 8),
                              !.need = 4, !.pend = TextNull, !.pc = "next"]
        [] t = BSON_DATA_DATE -> [r EXCEPT !.need = 26, !.pc = "date"]
        [] t = BSON_DATA_BOOLEAN ->
             IF Rd(inp, i, g) = 1
               THEN [r EXCEPT !.inIdx = i + 1, !.ub = OobRead(inp, i, 1), !.need = 4,
                              !.pend = TextTrue, !.bulk = TRUE, !.pc = "next"]
               ELSE [r EXCEPT !.inIdx = i + 1, !.ub = OobRead(inp, i, 1), !.need = 5,
                              !.pend = TextFalse, !.bulk = TRUE, !.pc = "next"]
        [] t = BSON_DATA_OBJECT ->
             [r EXCEPT !.stack = Append(w.stack, Frame(FALSE)), !.pc = "doc"]
        [] t = BSON_DATA_ARRAY ->
             [r EXCEPT !.stack = Append(w.stack, Frame(TRUE)), !.pc = "doc"]
        [] t = BSON_DATA_NULL ->
             [r EXCEPT !.need = 4, !.pend = TextNull, !.bulk = TRUE, !.pc = "next"]
        [] t = BSON_DATA_LONG ->
             [r EXCEPT !.inIdx = i + 8, !.ub = OobRead(inp, i, 8) \cup ItoaUb(b8),
                       !.need = Len(fast_itoa(b8, ub)), !.pend = fast_itoa(b8, ub),
                       !.bulk = TRUE, !.pc = "next"]
        [] t = BSON_DATA_UNDEFINED -> [r EXCEPT !.pc = "next"]
        [] OTHER -> SegReject(w, i, t)

\* lines 299-302 (and 321, 361, 412): end = inIdx + n; ENSURE_SPACE_OR_RETURN(n)
SegStrBegin(inp, w, i, g) ==
  [R0(w, i) EXCEPT !.end = i + w.n, !.need = w.n, !.pc = "strLoop", !.fpc = "afterStr"]

\* one iteration of writeEscapedChars(n, Enabler<ISA::BASELINE>), lines 303-316
StrBaseline(inp, w, i, g) ==
  LET c == Rd(inp, i, g)
      i1 == i + 1
      r == [R0(w, i) EXCEPT !.inIdx = i1, !.ub = OobRead(inp, i, 1),
                            !.fpc = "afterStr"]
  IN  IF c >= 32 /\ c # 34 /\ c # 92 THEN [r EXCEPT !.pend = <<c>>]
      ELSE IF getEscape(c) # 0
        THEN [r EXCEPT !.need = w.end - i1 + 1, !.pend = EscapeBytes(c)]
      ELSE [r EXCEPT !.need = w.end - i1 + 5, !.pend = EscapeBytes(c)]

\* the head of one iteration of the bounded vector writers (SSE4.2 lines
\* 327-341, SSE2 lines 372-392, AVX2 lines 423-443): load, scan, store, advance
StrVector(inp, isa, w, i, g) ==
  LET width == IF isa = "AVX2" THEN 32 ELSE 16
      clampedN == IF w.n > width THEN width ELSE w.n
      chars == readLE(inp, i, width, g)
      found == IF isa = "SSE42" THEN cmpestri(chars, w.n)
                                ELSE FirstLane(chars, EscUnsigned, 32)
      esRIdx == IF isa = "SSE42"
                  THEN (IF found = 16 THEN clampedN ELSE found)
                  ELSE (IF found > clampedN THEN clampedN ELSE found)
  IN  [R0(w, i) EXCEPT !.pend = SubSeq(chars, 1, esRIdx), !.bulk = TRUE,
                       !.span = width, !.n = w.n - esRIdx, !.inIdx = i + esRIdx,
                       !.ub = OverRead(inp, i, width), !.fpc = "afterStr",
                       !.pc = IF esRIdx < clampedN THEN "strEsc" ELSE "strLoop"]

SegStrLoop(inp, isa, w, i, g) ==
  IF ~(i < w.end) THEN [R0(w, i) EXCEPT !.pc = "afterStr"]
  ELSE IF isa = "BASELINE" THEN StrBaseline(inp, w, i, g)
  ELSE StrVector(inp, isa, w, i, g)

\* the tail of that iteration (lines 343-355, 394-406, 445-457): the byte
\* that stopped the scan
SegStrEsc(inp, w, i, g) ==
  LET c == Rd(inp, i, g)
      i1 == i + 1
  IN  [R0(w, i) EXCEPT !.inIdx = i1, !.n = w.n - 1, !.ub = OobRead(inp, i, 1),
                       !.need = w.end - i1 + (IF getEscape(c) # 0 THEN 1 ELSE 5),
                       !.pend = EscapeBytes(c), !.pc = "strLoop", !.fpc = "afterStr"]

\* lines 673-675: the terminator is skipped whatever writeEscapedChars returned
SegAfterStr(inp, w, i, g) ==
  [R0(w, i) EXCEPT !.inIdx = i + 1, !.need = 1, !.pend = <<Chr("\"")>>, !.pc = "next"]

\* the 24 hex digits of 12 bytes
HexOf(b) ==
  [k \in 1..(2 * Len(b)) |->
     IF k % 2 = 1 THEN hexNib(b[(k + 1) \div 2] \div 16) ELSE hexNib(b[k \div 2] % 16)]

\* transcodeObjectId: Enabler<ISA::BASELINE> lines 564-573 (oid, oidLoop),
\* Enabler<ISA::AVX2> lines 578-622 (oid, oidStore, oidQuote)
SegOid(inp, isa, w, i, g) ==
  IF TierOid(isa) = "AVX2"
    THEN [R0(w, i) EXCEPT !.inIdx = i + 12, !.ub = OobRead(inp, i, 12),
                          !.pend = <<Chr("\"")>>, !.pc = "oidStore"]
    ELSE [R0(w, i) EXCEPT !.end = i + 12, !.pend = <<Chr("\"")>>, !.pc = "oidLoop"]

SegOidLoop(inp, w, i, g) ==
  LET byte == Rd(inp, i, g)
  IN  IF i < w.end
        THEN [R0(w, i) EXCEPT !.inIdx = i + 1, !.ub = OobRead(inp, i, 1),
                              !.pend = <<hexNib(byte \div 16), hexNib(byte % 16)>>]
        ELSE [R0(w, i) EXCEPT !.pend = <<Chr("\"")>>, !.pc = "next"]

SegOidStore(inp, w, i, g) ==
  [R0(w, i) EXCEPT !.pend = HexOf(readLE(inp, i - 12, 12, g)), !.bulk = TRUE,
                   !.span = 24, !.pc = "oidQuote"]

SegOidQuote(inp, w, i, g) ==
  [R0(w, i) EXCEPT !.pend = <<Chr("\"")>>, !.pc = "next"]

\* case BSON_DATA_DATE after ENSURE_SPACE_OR_RETURN(26): lines 713-716,
\* line 717-718 (strftime, which also stores its terminating 0), lines 719-727
SegDate(inp, w, i, g) ==
  [R0(w, i) EXCEPT !.inIdx = i + 8, !.ub = OobRead(inp, i, 8),
                   !.pend = <<Chr("\"")>>, !.pc = "dateTime"]

SegDateTime(inp, w, i, g) ==
  LET value == readLE(inp, i - 8, 8, g)
  IN  IF DateInRange(value)
        THEN [R0(w, i) EXCEPT !.pend = StrfTime(DateSeconds(value)), !.bulk = TRUE,
                              !.span = 20, !.pc = "dateFrac"]
        ELSE [R0(w, i) EXCEPT !.ub = {"dateRange"}, !.pc = "dateFrac"]

SegDateFrac(inp, w, i, g, ub) ==
  LET value == readLE(inp, i - 8, 8, g)
  IN  [R0(w, i) EXCEPT
         !.pend = <<Chr(".")>> \o DateFraction(DateMillis(value), ub)
                    \o <<Chr("Z"), Chr("\"")>>,
         !.pc = "next"]

\* return false from transcodeObject: to transcode (line 214), or to the
\* caller's case BSON_DATA_OBJECT / BSON_DATA_ARRAY (lines 743-756)
SegRet(inp, w, i, g) ==
  LET r == [R0(w, i) EXCEPT !.stack = Pop(w)]
  IN  IF Len(w.stack) = 1 THEN [r EXCEPT !.pc = "top_ok"]
      ELSE IF Top(w).isArray /\ Rd(inp, i - 1, g) # 0
        THEN [r EXCEPT !.err = ErrArrayTerm, !.pc = "unwind",
                       !.ub = OobRead(inp, i - 1, 1)]
      ELSE [r EXCEPT !.pc = "next"]

\* SegUnwind with the callers of lines 744 and 749 dropping what the nested
\* transcodeObject returned
SegUnwindDropped(w, i) ==
  [R0(w, i) EXCEPT !.stack = Pop(w),
                   !.pc = IF Len(w.stack) = 1 THEN "top_fail" ELSE "next"]

\* return true from transcodeObject: the caller returns true as well
\* (lines 744-745, 749-750), up to transcode (lines 211-212)
SegUnwind(w, i) ==
  [R0(w, i) EXCEPT !.stack = Pop(w),
                   !.pc = IF Len(w.stack) = 1 THEN "top_fail" ELSE "unwind"]

\* the segment that starts at w.pc
Seg(inp, isa, w, i, g, ub) ==
  CASE w.pc = "doc" -> SegDoc(inp, w, i, g)
    [] w.pc = "elem" -> SegElem(inp, w, i, g)
    [] w.pc = "next" -> SegNext(inp, w, i, g)
    [] w.pc = "name" -> SegName(inp, w, i, g)
    [] w.pc = "nameEsc" -> SegNameEsc(inp, isa, w, i, g)
    [] w.pc = "nameEsc2" -> SegNameEsc2(inp, isa, w, i, g)
    [] w.pc = "afterName" -> SegAfterName(inp, w, i, g)
    [] w.pc = "value" -> SegValue(inp, w, i, g, ub)
    [] w.pc = "strBegin" -> SegStrBegin(inp, w, i, g)
    [] w.pc = "strLoop" -> SegStrLoop(inp, isa, w, i, g)
    [] w.pc = "strEsc" -> SegStrEsc(inp, w, i, g)
    [] w.pc = "afterStr" -> SegAfterStr(inp, w, i, g)
    [] w.pc = "oid" -> SegOid(inp, isa, w, i, g)
    [] w.pc = "oidLoop" -> SegOidLoop(inp, w, i, g)
    [] w.pc = "oidStore" -> SegOidStore(inp, w, i, g)
    [] w.pc = "oidQuote" -> SegOidQuote(inp, w, i, g)
    [] w.pc = "date" -> SegDate(inp, w, i, g)
    [] w.pc = "dateTime" -> SegDateTime(inp, w, i, g)
    [] w.pc = "dateFrac" -> SegDateFrac(inp, w, i, g, ub)
    [] w.pc = "ret" -> SegRet(inp, w, i, g)
    [] w.pc = "unwind" -> SegUnwind(w, i)

\* the walker's locals out of a segment's result
Locals(r) == [pc |-> r.pc, stack |-> r.stack, elType |-> r.elType, end |-> r.end, n |-> r.n]

\* the walker as transcode calls it: transcodeObject<isa>(isArray)
W0(isArray) ==
  [pc |-> "doc", stack |-> <<Frame(isArray)>>, elType |-> 0, end |-> 0, n |-> 0]

(***************************************************************************)
(* The inputs of the model: BSON documents, built as the wire format says, *)
(* and damaged copies of them.                                             *)
(***************************************************************************)
CStr(name) == name \o <<0>>
Elem(type, name, value) == <<type>> \o CStr(name) \o value
Doc(elems) == LE32(Len(elems) + 5) \o elems \o <<0>>
BStr(s) == LE32(Len(s) + 1) \o s \o <<0>>
Prefixes(s) == {SubSeq(s, 1, k) : k \in 1..(Len(s) - 1)}

NameA == <<97>>
NameB == <<98>>
Idx0 == <<48>>
Idx1 == <<49>>
Idx2 == <<50>>
Int32Min == <<0, 0, 0, 128>>
Int64Min == <<0, 0, 0, 0, 0, 0, 0, 128>>
Int64Max == <<255, 255, 255, 255, 255, 255, 255, 127>>
OneAndAHalf == <<0, 0, 0, 0, 0, 0, 248, 63>>
NaN == <<0, 0, 0, 0, 0, 0, 248, 127>>
SomeOid == <<0, 1, 35, 69, 103, 137, 171, 205, 239, 255, 16, 32>>

DocEmpty == Doc(<<>>)
DocInt(v) == Doc(Elem(BSON_DATA_INT, NameA, v))
DocLong(v) == Doc(Elem(BSON_DATA_LONG, NameA, v))
\* {"x": "he\"llo"}
DocString == Doc(Elem(BSON_DATA_STRING, <<120>>, BStr(<<104, 101, 34, 108, 108, 111>>)))
\* a string of 18 bytes with a control byte at offset 16 and a byte >= 0x80
DocLongString ==
  Doc(Elem(BSON_DATA_STRING, NameA,
           BStr(<<65, 66, 67, 68, 69, 70, 71, 72, 73, 74, 75, 76, 77, 78, 79, 195, 1, 90>>)))
\* a field name with a two-byte UTF-8 sequence, then one with a tab
DocUtf8Name == Doc(Elem(BSON_DATA_NULL, <<195, 169>>, <<>>))
DocTabName == Doc(Elem(BSON_DATA_BOOLEAN, <<97, 9, 98>>, <<0>>))
\* [1.5, null, true]
DocArray ==
  Doc(Elem(BSON_DATA_NUMBER, Idx0, OneAndAHalf) \o Elem(BSON_DATA_NULL, Idx1, <<>>)
        \o Elem(BSON_DATA_BOOLEAN, Idx2, <<1>>))
DocNaN == Doc(Elem(BSON_DATA_NUMBER, NameA, NaN))
\* {"a": undefined, "b": 1} and [undefined, 1]
DocUndefined ==
  Doc(Elem(BSON_DATA_UNDEFINED, NameA, <<>>) \o Elem(BSON_DATA_INT, NameB, LE32(1)))
DocUndefinedLast == Doc(Elem(BSON_DATA_UNDEFINED, NameA, <<>>))
DocOid == Doc(Elem(BSON_DATA_OID, NameA, SomeOid))
DocDate(ms) == Doc(Elem(BSON_DATA_DATE, NameA, ms))
\* {"a": {"b": [ <one element of type t> ]}}
DocDeep(t) ==
  Doc(Elem(BSON_DATA_OBJECT, NameA,
           Doc(Elem(BSON_DATA_ARRAY, NameB, Doc(Elem(t, Idx0, <<>>))))))
DocFlat(t) == Doc(Elem(t, NameA, <<>>))
\* {"a": [{}, 7]}
DocNested ==
  Doc(Elem(BSON_DATA_ARRAY, NameA,
           Doc(Elem(BSON_DATA_OBJECT, Idx0, DocEmpty)
                 \o Elem(BSON_DATA_INT, Idx1, LE32(7)))))

\* type bytes the switch does not know
UnknownTypes == {20, 128, 254}

\* well-formed documents, as objects and as arrays
ValidCases ==
  {[in |-> d, arr |-> FALSE] :
     d \in {DocEmpty, DocInt(LE32(1)), DocInt(LE32(0 - 907)), DocInt(Int32Min),
            DocLong(Int64Min), DocLong(Int64Max), DocString, DocLongString,
            DocUtf8Name, DocTabName, DocNaN, DocUndefined, DocUndefinedLast, DocOid,
            DocDate(<<0, 0, 0, 0, 0, 0, 0, 0>>),
            DocDate(<<255, 255, 255, 255, 255, 255, 255, 255>>), DocNested}}
  \cup {[in |-> d, arr |-> TRUE] : d \in {DocEmpty, DocArray, DocUndefined}}

\* documents with an element the switch rejects, at the top and three levels down
RejectCases ==
  {[in |-> DocFlat(t), arr |-> a] : t \in UnsupportedTypes \cup UnknownTypes, a \in BOOLEAN}
  \cup {[in |-> DocDeep(t), arr |-> FALSE] : t \in UnsupportedTypes \cup UnknownTypes}

\* damaged inputs: truncated, too short, with bytes after the document, with a
\* wrong size, without a terminator, with a nested document of a wrong size
DamagedCases ==
  {[in |-> d, arr |-> FALSE] :
     d \in Prefixes(DocInt(LE32(1))) \cup Prefixes(DocString)
           \cup {DocInt(LE32(1)) \o <<0>>, DocEmpty \o <<7, 7>>,
                 LE32(4) \o <<0>>, LE32(0 - 1) \o <<0>>, LE32(9) \o <<0>>,
                 LE32(7) \o <<BSON_DATA_NULL, 97, 98>>,
                 LE32(5) \o <<BSON_DATA_INT>>,
                 Doc(Elem(BSON_DATA_STRING, NameA, LE32(0) \o <<0>>)),
                 Doc(Elem(BSON_DATA_STRING, NameA, LE32(40) \o <<65, 0>>))}}
  \cup {[in |-> Doc(Elem(BSON_DATA_ARRAY, NameA, LE32(6) \o <<BSON_DATA_NULL, 7>>)),
         arr |-> FALSE]}
  \cup {[in |-> Doc(Elem(t, NameA, LE32(n) \o <<0>>)), arr |-> FALSE] :
          t \in {BSON_DATA_OBJECT, BSON_DATA_ARRAY}, n \in {4, 12, 14}}

Cases == ValidCases \cup RejectCases \cup DamagedCases

\* the runs of bsonToJson: REALLOC, chunkSize 0, every case under every tier
ReallocConfigs ==
  {[input |-> c.in, isArray |-> c.arr, isa |-> ISAs[k], mode |-> "REALLOC",
    chunkSize |-> 0, fixed |-> FALSE] :
     c \in Cases, k \in 1..Len(ISAs)}

\* the runs of BJTrans: PAUSE, with the chunkSize option (0: 2.5 x inLen) or a
\* fixedBuffer of that many bytes
PauseDrives ==
  {[chunkSize |-> 0, fixed |-> FALSE], [chunkSize |-> 16, fixed |-> FALSE],
   [chunkSize |-> 16, fixed |-> TRUE], [chunkSize |-> 40, fixed |-> TRUE]}
PauseCases ==
  {[in |-> d, arr |-> FALSE] :
     d \in {DocEmpty, DocInt(LE32(1)), DocInt(LE32(1234567890)), DocString, DocOid,
            DocInt(LE32(1)) \o <<0>>, DocFlat(BSON_DATA_BINARY), LE32(4) \o <<0>>,
            <<5, 0>>}}
  \cup {[in |-> DocArray, arr |-> TRUE]}
PauseConfigs ==
  {[input |-> c.in, isArray |-> c.arr, isa |-> "BASELINE", mode |-> "PAUSE",
    chunkSize |-> d.chunkSize, fixed |-> d.fixed] :
     c \in PauseCases, d \in PauseDrives}
  \cup {[input |-> d, isArray |-> FALSE, isa |-> "AVX2", mode |-> "PAUSE",
          chunkSize |-> 16, fixed |-> TRUE] : d \in {DocString, DocOid}}

\* what a read outside the input may find
OobBytes == {0, 255}
\* how far past the input the walker runs before the process faults
MaxOverrun == 3
\* the content of memory nobody wrote
Garbage == 0 - 1

(***************************************************************************)
(* The state.                                                              *)
(*   cfg       the arguments of the run: input, isArray, isa, mode,        *)
(*             chunkSize, fixed (a fixedBuffer of chunkSize bytes)         *)
(*   inIdx, inLen, out, outNull, outIdx, outLen, err                       *)
(*             the Transcoder's fields; out is the content of the memory   *)
(*             at trans.out, outNull says trans.out is nullptr             *)
(*   pst       where the thread running transcode is                       *)
(*   w, req    the walker's locals, and the pending ensureSpace call and   *)
(*             the bytes to write after it                                 *)
(*   ret       what transcode returned: "none" yet, "ok" (false), "fail"   *)
(*   cst, final, done, chunks                                              *)
(*             the host thread in next(), BJTrans::final, whether next()   *)
(*             has returned done = true, and the chunks it has returned    *)
(*   pWoken, cWoken                                                        *)
(*             a notify_one has reached the waiting producer / consumer    *)
(*   allocFails, spurious, races, ub                                       *)
(*             failed allocations, spurious wake-ups and data races so     *)
(*             far, and the kinds of undefined behaviour the run has       *)
(*             executed                                                    *)
(***************************************************************************)
VARIABLES cfg, inIdx, inLen, out, outNull, outIdx, outLen, err,
          pst, w, req, ret, cst, final, done, chunks, pWoken, cWoken,
          allocFails, spurious, races, ub

vars == <<cfg, inIdx, inLen, out, outNull, outIdx, outLen, err,
          pst, w, req, ret, cst, final, done, chunks, pWoken, cWoken,
          allocFails, spurious, races, ub>>

trans == <<inIdx, inLen, out, outNull, outIdx, outLen, err>>
producer == <<pst, w, req, ret>>
consumer == <<cst, final, done, chunks, races>>

NoReq == [need |-> 0 - 1, pend |-> <<>>, bulk |-> FALSE, span |-> 0, fpc |-> "unwind"]

\* the state after construction of the Transcoder (lines 156-159, 242-244) and,
\* in PAUSE mode, of BJTrans (lines 859-863), the worker spawned but not yet run
InitOf(cfgs) ==
  /\ cfg \in cfgs
  /\ inIdx = 0 /\ inLen = 0
  /\ out = <<>> /\ outNull = TRUE /\ outIdx = 0 /\ outLen = 0
  /\ err = ErrNone
  /\ pst = "spawn" /\ w = W0(FALSE) /\ req = NoReq /\ ret = "none"
  /\ cst = IF cfg.mode = "PAUSE" THEN "idle" ELSE "none"
  /\ final = FALSE /\ done = FALSE /\ chunks = <<>>
  /\ pWoken = FALSE /\ cWoken = FALSE
  /\ allocFails = 0 /\ spurious = 0 /\ races = 0 /\ ub = {}

\* BJTrans, and bsonToJson
Init == InitOf(PauseConfigs)
InitRealloc == InitOf(ReallocConfigs)

\* Transcoder::isDone
isDone == inIdx = inLen

\* whether realloc(out, to) may return nullptr: when the allocator is out of
\* memory, and for a size of 0, where the result is implementation-defined
MayFail(to) == allocFails < MaxAllocFail \/ to = 0

\* the memory after a successful realloc(out, to): the old content up to `to`
Realloc(to) == IF outNull THEN <<>> ELSE SubSeq(out, 1, Min(Len(out), to))

\* the memory after bytes are stored at index at
Store(mem, at, bytes) ==
  [j \in 1..Max(Len(mem), at + Len(bytes)) |->
     IF j > at /\ j <= at + Len(bytes) THEN bytes[j - at]
     ELSE IF j <= Len(mem) THEN mem[j] ELSE Garbage]

\* the undefined behaviour of a store of `stored` bytes, `kept` of them below
\* the new outIdx, at index at
StoreUb(at, kept, stored) ==
  (IF outNull THEN {"nullWrite"} ELSE {})
    \cup (IF at + kept > outLen THEN {"oobWrite"} ELSE {})
    \cup (IF at + kept <= outLen /\ at + stored > outLen THEN {"simdOverrun"} ELSE {})

\* cv.notify_one(): it reaches the other thread when that thread waits
ProducerWaits == pst \in {"barrierWait", "ensureWait"}
ConsumerWaits == cst = "waiting"

(***************************************************************************)
(* The producer: transcode, on the caller's thread (REALLOC) or on the     *)
(* worker thread (PAUSE).  Each critical section of the mutex m is one     *)
(* action.                                                                 *)
(***************************************************************************)
\* Transcoder::resize(to), lines 257-269
resize(to, fail) ==
  /\ fail => MayFail(to)
  /\ IF fail
       THEN /\ out' = <<>> /\ outNull' = TRUE /\ outLen' = outLen
            /\ err' = ErrAlloc
            /\ allocFails' = IF to = 0 THEN allocFails ELSE allocFails + 1
       ELSE /\ out' = Realloc(to) /\ outNull' = FALSE /\ outLen' = to
            /\ err' = err
            /\ allocFails' = allocFails

\* where the producer goes when ensureSpace has returned false
AfterEnsure == IF req.pend = <<>> THEN "run" ELSE "write"

\* transcode, lines 178-203: the fields, the chunk size, the buffer; what
\* resize returns is not looked at
TranscodeEnter ==
  /\ pst = "spawn"
  /\ LET len == Len(cfg.input)
         chunkSize == IF cfg.chunkSize = 0 /\ ~cfg.fixed THEN (len * 10) \div 4
                                                        ELSE cfg.chunkSize
     IN  /\ inLen' = len
         /\ inIdx' = 0
         /\ IF cfg.fixed
              THEN /\ out' = <<>> /\ outNull' = FALSE /\ outLen' = chunkSize
                   /\ UNCHANGED <<err, allocFails>>
              ELSE \E fail \in BOOLEAN : resize(chunkSize, fail)
  /\ pst' = IF cfg.mode = "PAUSE" THEN "barrier" ELSE "run"
  /\ w' = W0(cfg.isArray)
  /\ UNCHANGED <<cfg, outIdx, req, ret, consumer, pWoken, cWoken, spurious, ub>>

\* transcode, lines 205-209: the sentinel, then the wait for outIdx == 0
Barrier ==
  /\ pst = "barrier"
  /\ outIdx' = outLen + 1
  /\ pst' = "barrierWait"
  /\ pWoken' = FALSE
  /\ UNCHANGED <<cfg, inIdx, inLen, out, outNull, outLen, err, w, req, ret, consumer,
                 cWoken, allocFails, spurious, ub>>

\* the producer's cv.wait(lk, outIdx == 0) wakes, by a notify_one or
\* spuriously, and evaluates its predicate under the mutex
ProducerWake ==
  /\ ProducerWaits
  /\ \E sp \in BOOLEAN :
       /\ IF sp THEN ~pWoken /\ spurious < MaxSpurious /\ outIdx = 0 ELSE pWoken
       /\ spurious' = IF sp THEN spurious + 1 ELSE spurious
  /\ pWoken' = FALSE
  /\ pst' = IF outIdx # 0 THEN pst
            ELSE IF pst = "barrierWait" THEN "run" ELSE AfterEnsure
  /\ UNCHANGED <<cfg, trans, w, req, ret, consumer, cWoken, allocFails, ub>>

\* the outcomes of the undefined behaviour the next segment executes, if any
ReadOutcomes ==
  IF Seg(cfg.input, cfg.isa, w, inIdx, 0, "wrap").ub = {} THEN {0} ELSE OobBytes
OverflowOutcomes == IF w.pc \in {"value", "dateFrac"} THEN ItoaOutcomes ELSE {"wrap"}

\* one segment of transcodeObject; at its end, lines 211-217 of transcode
ProducerRun ==
  /\ pst = "run"
  /\ inIdx <= inLen + MaxOverrun
  /\ \E g \in ReadOutcomes, u \in OverflowOutcomes :
       LET r == Seg(cfg.input, cfg.isa, w, inIdx, g, u)
       IN  /\ w' = Locals(r)
           /\ req' = [need |-> r.need, pend |-> r.pend, bulk |-> r.bulk,
                      span |-> r.span, fpc |-> r.fpc]
           /\ inIdx' = r.inIdx
           /\ err' = IF r.err # ErrNone THEN r.err ELSE err
           /\ ub' = ub \cup r.ub
           /\ pst' = IF r.pc \in {"top_ok", "top_fail"} THEN "returned"
                     ELSE IF r.need >= 0 THEN "ensure"
                     ELSE IF r.pend # <<>> THEN "write" ELSE "run"
           /\ ret' = IF r.pc = "top_ok" THEN "ok"
                     ELSE IF r.pc = "top_fail" THEN "fail" ELSE ret
           /\ cWoken' = IF r.pc = "top_ok" /\ cfg.mode = "PAUSE" /\ ConsumerWaits
                          THEN TRUE ELSE cWoken
  /\ UNCHANGED <<cfg, inLen, out, outNull, outIdx, outLen, consumer, pWoken,
                 allocFails, spurious>>

\* Transcoder::ensureSpace(n), lines 271-280
EnsureSpace ==
  /\ pst = "ensure"
  /\ IF outIdx + req.need < outLen
       THEN /\ pst' = AfterEnsure
            /\ UNCHANGED <<out, outNull, outLen, err, allocFails, w, req, cWoken>>
       ELSE IF cfg.mode = "REALLOC"
         THEN /\ \E fail \in BOOLEAN :
                   /\ resize((outLen * 3) \div 2, fail)
                   /\ pst' = IF fail THEN "run" ELSE AfterEnsure
                   /\ w' = IF fail THEN [w EXCEPT !.pc = req.fpc] ELSE w
                   /\ req' = IF fail THEN NoReq ELSE req
              /\ UNCHANGED cWoken
         ELSE /\ cWoken' = (cWoken \/ ConsumerWaits)
              /\ pst' = "ensureLock"
              /\ UNCHANGED <<out, outNull, outLen, err, allocFails, w, req>>
  /\ UNCHANGED <<cfg, inIdx, inLen, outIdx, ret, consumer, pWoken, spurious, ub>>

\* ensureSpace, lines 281-284: the lock and the wait for outIdx == 0
EnsureLock ==
  /\ pst = "ensureLock"
  /\ pst' = IF outIdx = 0 THEN AfterEnsure ELSE "ensureWait"
  /\ pWoken' = FALSE
  /\ UNCHANGED <<cfg, trans, w, req, ret, consumer, cWoken, allocFails, spurious, ub>>

\* the stores that follow an ensureSpace: out[outIdx++] = c one byte at a
\* time, or one memcpy / vector store and outIdx += n.  A store through a null
\* out faults.
Write ==
  /\ pst = "write"
  /\ LET bytes == IF req.bulk THEN req.pend ELSE <<Head(req.pend)>>
         rest == IF req.bulk THEN <<>> ELSE Tail(req.pend)
         stored == Max(req.span, Len(bytes))
     IN  /\ ub' = ub \cup StoreUb(outIdx, Len(bytes), stored)
         /\ IF outNull
              THEN /\ pst' = "crashed"
                   /\ UNCHANGED <<out, outIdx, req>>
              ELSE /\ out' = Store(out, outIdx, bytes)
                   /\ outIdx' = outIdx + Len(bytes)
                   /\ req' = [req EXCEPT !.pend = rest]
                   /\ pst' = IF rest = <<>> THEN "run" ELSE "write"
  /\ UNCHANGED <<cfg, inIdx, inLen, outNull, outLen, err, w, ret, consumer, pWoken,
                 cWoken, allocFails, spurious>>

\* after an access outside an object the process may fault; it does once the
\* walker has run MaxOverrun bytes past the input
Crash ==
  /\ pst \notin {"spawn", "returned", "crashed"}
  /\ ub \cap {"oobRead", "oobWrite", "nullWrite"} # {}
  /\ pst' = "crashed"
  /\ UNCHANGED <<cfg, trans, w, req, ret, consumer, pWoken, cWoken, allocFails,
                 spurious, ub>>

(***************************************************************************)
(* The host.  bsonToJson, lines 903-923: the buffer out[0..outIdx] on      *)
(* success, an exception otherwise.  BJTrans's next(), lines 870-896.      *)
(***************************************************************************)
\* the bytes out[0 .. n-1] as a reader finds them
Chunk(n) == [j \in 1..n |-> IF j <= Len(out) THEN out[j] ELSE Garbage]

BsonToJsonReturn ==
  /\ cfg.mode = "REALLOC" /\ pst = "returned" /\ cst = "none"
  /\ cst' = "finished"
  /\ done' = TRUE
  /\ chunks' = IF ret = "ok" THEN <<Chunk(outIdx)>> ELSE <<>>
  /\ UNCHANGED <<cfg, trans, producer, final, pWoken, cWoken, allocFails, spurious,
                 races, ub>>

\* whether the worker runs: in the prologue of transcode or between two
\* waits, where it writes inLen, inIdx, outIdx and out without the mutex
WorkerRuns == pst \in {"spawn", "barrier", "run", "ensure", "write"}

\* an access of the host to inLen, inIdx, outIdx or out: while the worker runs
\* nothing orders the two, and where the worker holds no mutex it is a data
\* race
HostAccess ==
  /\ WorkerRuns => races < MaxRaces
  /\ races' = IF WorkerRuns THEN races + 1 ELSE races
  /\ ub' = IF WorkerRuns THEN ub \cup {"race"} ELSE ub

\* next(), lines 875-879: done when final, else setOutIdx(0).  In a race with
\* the worker's outIdx++ the store of 0 may be kept or lost.
NextCall ==
  /\ cst = "idle" /\ pst # "crashed"
  /\ IF final
       THEN /\ done' = TRUE /\ cst' = "join" /\ UNCHANGED <<outIdx, races, ub>>
       ELSE /\ Len(chunks) < MaxCalls
            /\ HostAccess
            /\ \E lost \in BOOLEAN :
                 /\ lost => pst = "write" /\ outIdx > 0
                 /\ outIdx' = IF lost THEN outIdx ELSE 0
            /\ cst' = "notify" /\ UNCHANGED done
  /\ UNCHANGED <<cfg, inIdx, inLen, out, outNull, outLen, err, producer, final, chunks,
                 pWoken, cWoken, allocFails, spurious>>

\* resume(), line 226
ResumeNotify ==
  /\ cst = "notify" /\ pst # "crashed"
  /\ pWoken' = (pWoken \/ ProducerWaits)
  /\ cst' = "lock"
  /\ UNCHANGED <<cfg, trans, producer, final, done, chunks, cWoken, allocFails,
                 spurious, races, ub>>

\* resume(), lines 227-228: the lock and the wait for outIdx > 0 || isDone()
ResumeLock ==
  /\ cst = "lock" /\ pst # "crashed"
  /\ HostAccess
  /\ cst' = IF outIdx > 0 \/ isDone THEN "isDone" ELSE "waiting"
  /\ cWoken' = FALSE
  /\ UNCHANGED <<cfg, trans, producer, final, done, chunks, pWoken, allocFails,
                 spurious>>

\* the consumer's cv.wait wakes, by a notify_one or spuriously, and evaluates
\* its predicate under the mutex
ConsumerWake ==
  /\ ConsumerWaits /\ pst # "crashed"
  /\ HostAccess
  /\ \E sp \in BOOLEAN :
       /\ IF sp THEN ~cWoken /\ spurious < MaxSpurious /\ (outIdx > 0 \/ isDone)
                ELSE cWoken
       /\ spurious' = IF sp THEN spurious + 1 ELSE spurious
  /\ cWoken' = FALSE
  /\ cst' = IF outIdx > 0 \/ isDone THEN "isDone" ELSE "waiting"
  /\ UNCHANGED <<cfg, trans, producer, final, done, chunks, pWoken, allocFails>>

\* next(), lines 882-883
CheckDone ==
  /\ cst = "isDone" /\ pst # "crashed"
  /\ HostAccess
  /\ final' = (final \/ isDone)
  /\ cst' = "deliver"
  /\ UNCHANGED <<cfg, trans, producer, done, chunks, pWoken, cWoken, allocFails,
                 spurious>>

\* next(), lines 885-895: the chunk out[0..outIdx], done = false
Deliver ==
  /\ cst = "deliver" /\ pst # "crashed"
  /\ HostAccess
  /\ chunks' = Append(chunks, Chunk(outIdx))
  /\ cst' = "idle"
  /\ UNCHANGED <<cfg, trans, producer, final, done, pWoken, cWoken, allocFails,
                 spurious>>

\* next(), line 877: worker.join() returns when transcode has returned
Join ==
  /\ cst = "join" /\ pst = "returned"
  /\ cst' = "finished"
  /\ UNCHANGED <<cfg, trans, producer, final, done, chunks, pWoken, cWoken,
                 allocFails, spurious, races, ub>>

\* BJTrans: the worker thread and the host thread
Next ==
  \/ TranscodeEnter \/ Barrier \/ ProducerWake \/ ProducerRun \/ EnsureSpace
  \/ EnsureLock \/ Write \/ Crash
  \/ NextCall \/ ResumeNotify \/ ResumeLock \/ ConsumerWake
  \/ CheckDone \/ Deliver \/ Join

Spec == Init /\ [][Next]_vars

\* bsonToJson: one thread
NextRealloc ==
  \/ TranscodeEnter \/ ProducerRun \/ EnsureSpace \/ Write \/ Crash
  \/ BsonToJsonReturn

SpecRealloc == InitRealloc /\ [][NextRealloc]_vars

(***************************************************************************)
(* What a run of transcode writes when no allocation fails: the segments   *)
(* of the walker in order, every pending byte stored.                      *)
(***************************************************************************)
RECURSIVE Walk(_, _, _, _)
Walk(inp, isa, w0, i) ==
  LET r == Seg(inp, isa, w0, i, 0, "wrap")
  IN  IF r.pc \in {"top_ok", "top_fail"}
        THEN [ok |-> r.pc = "top_ok", out |-> r.pend, inIdx |-> r.inIdx, ub |-> r.ub]
        ELSE LET t == Walk(inp, isa, Locals(r), r.inIdx)
             IN  [t EXCEPT !.out = r.pend \o @, !.ub = r.ub \cup @]

\* bsonToJson(input, isArray) under tier isa
ReallocOutput(c) == Walk(c.input, c.isa, W0(c.isArray), 0)

(***************************************************************************)
(* Properties.                                                             *)
(***************************************************************************)
RECURSIVE Concat(_)
Concat(ss) == IF ss = <<>> THEN <<>> ELSE Head(ss) \o Concat(Tail(ss))

\* a document the walker accepts, reading every byte of the input and none
\* outside it
ValidDocument(c) ==
  LET t == ReallocOutput(c)
  IN  t.ok /\ t.ub = {} /\ t.inIdx = Len(c.input)

\* a run in which every access of the host found the worker waiting or
\* returned, and no wait woke spuriously
Synchronised == "race" \notin ub /\ spurious = 0

\* C1: in PAUSE mode, once next() has reported done for a valid document, the
\* chunks it delivered, concatenated in order, are the REALLOC output of the
\* same input.  Stated for the synchronised runs.
C1_ChunksAreReallocOutput ==
  (cfg.mode = "PAUSE" /\ done /\ ValidDocument(cfg) /\ Synchronised)
    => Concat(chunks) = ReallocOutput(cfg).out

\* nothing is left that could end the wait of resume(): no notify_one is on
\* its way and the predicate outIdx > 0 || isDone() is false
ResumeBlocked == cst = "waiting" /\ ~cWoken /\ ~(outIdx > 0 \/ isDone)

\* C2: in PAUSE mode, after transcode has returned success the consumer is
\* not left blocked in resume().  Stated for the synchronised runs.
C2_NoBlockAfterSuccess ==
  ~(cfg.mode = "PAUSE" /\ pst = "returned" /\ ret = "ok" /\ ResumeBlocked
      /\ Synchronised /\ ub = {})

\* C3: in PAUSE mode, after transcode has returned failure with err set the
\* consumer is not left blocked in resume().  Stated for the synchronised runs.
C3_NoBlockAfterFailure ==
  ~(cfg.mode = "PAUSE" /\ pst = "returned" /\ ret = "fail" /\ err # ErrNone
      /\ ResumeBlocked /\ Synchronised /\ ub = {})

\* C4: in PAUSE mode, whenever the worker hands the buffer to the consumer
\* (it notifies and waits in ensureSpace, or transcode has returned), outIdx
\* is at most outLen.  Stated for the synchronised runs.
C4_CursorWithinBuffer ==
  (cfg.mode = "PAUSE" /\ pst \in {"ensureLock", "ensureWait", "returned"}
     /\ Synchronised)
    => outIdx <= outLen

\* C5: the read cursor never passes the end of the input and no read of a
\* field, a type byte or a name byte is made at an index >= inLen.  Stated
\* for the runs in which no allocation fails.
C5_ReadsWithinInput ==
  (allocFails = 0 /\ err # ErrAlloc) => (inIdx <= inLen /\ "oobRead" \notin ub)

\* C6: once err is set it keeps its value, and out and outIdx do not change
\* any more.  Stated for the steps that leave the run free of undefined
\* behaviour.
C6_ErrIsTerminal ==
  [][(err # ErrNone /\ ub' = {})
       => (err' = err /\ out' = out /\ outIdx' = outIdx)]_vars

(***************************************************************************)
(* JSON texts (RFC 8259, without insignificant white space, which the      *)
(* writer never emits).  Each operator takes the text s and the index of   *)
(* the first byte of a construct and gives the index after it, 0 when s    *)
(* holds no such construct there.                                          *)
(***************************************************************************)
At(s, i) == IF i >= 1 /\ i <= Len(s) THEN s[i] ELSE 0 - 2
IsDigit(c) == c >= 48 /\ c <= 57
IsHex(c) == IsDigit(c) \/ (c >= 65 /\ c <= 70) \/ (c >= 97 /\ c <= 102)

RECURSIVE DigitsEnd(_, _)
DigitsEnd(s, i) == IF IsDigit(At(s, i)) THEN DigitsEnd(s, i + 1) ELSE i

JsonNumber(s, i) ==
  LET a == IF At(s, i) = 45 THEN i + 1 ELSE i
      b == IF ~IsDigit(At(s, a)) THEN 0
           ELSE IF At(s, a) = 48 THEN a + 1 ELSE DigitsEnd(s, a)
      c == IF b = 0 \/ At(s, b) # 46 THEN b
           ELSE IF DigitsEnd(s, b + 1) = b + 1 THEN 0 ELSE DigitsEnd(s, b + 1)
      e == IF At(s, c + 1) \in {43, 45} THEN c + 2 ELSE c + 1
  IN  IF c = 0 \/ At(s, c) \notin {69, 101} THEN c
      ELSE IF DigitsEnd(s, e) = e THEN 0 ELSE DigitsEnd(s, e)

\* i is the index after the opening quote
RECURSIVE JsonString(_, _)
JsonString(s, i) ==
  LET c == At(s, i)
  IN  IF c < 32 THEN 0
      ELSE IF c = 34 THEN i + 1
      ELSE IF c # 92 THEN JsonString(s, i + 1)
      ELSE IF At(s, i + 1) \in {34, 92, 47, 98, 102, 110, 114, 116}
        THEN JsonString(s, i + 2)
      ELSE IF At(s, i + 1) = 117 /\ \A k \in 2..5 : IsHex(At(s, i + k))
        THEN JsonString(s, i + 6)
      ELSE 0

JsonLiteral(s, i, text) ==
  IF i + Len(text) - 1 <= Len(s) /\ SubSeq(s, i, i + Len(text) - 1) = text
    THEN i + Len(text) ELSE 0

RECURSIVE JsonValue(_, _)
RECURSIVE JsonMembers(_, _)
RECURSIVE JsonElements(_, _)
JsonValue(s, i) ==
  LET c == At(s, i)
  IN  CASE c = 123 -> IF At(s, i + 1) = 125 THEN i + 2 ELSE JsonMembers(s, i + 1)
        [] c = 91 -> IF At(s, i + 1) = 93 THEN i + 2 ELSE JsonElements(s, i + 1)
        [] c = 34 -> JsonString(s, i + 1)
        [] c = 116 -> JsonLiteral(s, i, TextTrue)
        [] c = 102 -> JsonLiteral(s, i, TextFalse)
        [] c = 110 -> JsonLiteral(s, i, TextNull)
        [] c = 45 \/ IsDigit(c) -> JsonNumber(s, i)
        [] OTHER -> 0

\* "name":value, then , and more members or }
JsonMembers(s, i) ==
  LET j == IF At(s, i) = 34 THEN JsonString(s, i + 1) ELSE 0
      k == IF j # 0 /\ At(s, j) = 58 THEN JsonValue(s, j + 1) ELSE 0
  IN  IF k = 0 THEN 0
      ELSE IF At(s, k) = 44 THEN JsonMembers(s, k + 1)
      ELSE IF At(s, k) = 125 THEN k + 1
      ELSE 0

\* value, then , and more elements or ]
JsonElements(s, i) ==
  LET k == JsonValue(s, i)
  IN  IF k = 0 THEN 0
      ELSE IF At(s, k) = 44 THEN JsonElements(s, k + 1)
      ELSE IF At(s, k) = 93 THEN k + 1
      ELSE 0

WellFormedJson(s) == s # <<>> /\ JsonValue(s, 1) = Len(s) + 1

\* bsonToJson has returned a buffer, after a run without an error, a failed
\* allocation or an out-of-bounds access
ReturnedBuffer ==
  /\ cfg.mode = "REALLOC" /\ cst = "finished" /\ ret = "ok" /\ err = ErrNone
  /\ ub \subseteq {"simdOverread", "simdOverrun"}

\* C7: the buffer bsonToJson returns is a well-formed JSON text that starts
\* with the bracket isArray asks for.
C7_OutputIsJson ==
  ReturnedBuffer =>
    /\ WellFormedJson(chunks[1])
    /\ chunks[1][1] = (IF cfg.isArray THEN Chr("[") ELSE Chr("{"))

\* C8: under every tier the buffer bsonToJson returns, and the final inIdx,
\* are those of the BASELINE tier for the same input.
C8_TiersAgreeWithBaseline ==
  ReturnedBuffer =>
    LET base == ReallocOutput([cfg EXCEPT !.isa = "BASELINE"])
    IN  chunks[1] = base.out /\ inIdx = base.inIdx

\* the type bytes the specification lists as unsupported, and as known
ListedUnsupported == {5, 11, 12, 13, 14, 15, 17, 19, 255, 127}
ListedKnown == (0..19) \cup {127, 255}

\* C9: when no allocation fails, a document whose first element, at the top
\* or three levels down, has an unsupported type makes transcode return
\* failure with err "BSON type incompatible with JSON", and one with a type
\* outside the known set with err "Unknown BSON type".
C9_RejectedTypes ==
  \A t \in UnsupportedTypes \cup UnknownTypes :
    (cfg.input \in {DocFlat(t), DocDeep(t)} /\ pst = "returned" /\ allocFails = 0)
      => /\ ret = "fail"
         /\ t \in ListedUnsupported => err = ErrIncompatible
         /\ t \notin ListedKnown => err = ErrUnknown
         /\ t \in ListedUnsupported \/ t \notin ListedKnown

\* an unsupported type three levels down has been rejected and the failure has
\* reached transcode
C9_Witness ==
  /\ cfg.input = DocDeep(BSON_DATA_TIMESTAMP) /\ pst = "returned" /\ allocFails = 0
  /\ ret = "fail" /\ err = ErrIncompatible /\ outIdx > 0

\* the canonical decimal text of the two's complement number in the
\* little-endian bytes b
RECURSIVE DecDigits(_)
DecDigits(m) ==
  IF GeB(m, 10) THEN DecDigits(QuotB(m, 10)) \o <<48 + ModB(m, 10)>> ELSE <<48 + m[1]>>
Decimal(b) == IF IsNegB(b) THEN <<Chr("-")>> \o DecDigits(NegB(b)) ELSE DecDigits(b)

\* the bytes of the INT or LONG value the walker has just read
ValueRead == SubSeq(cfg.input, inIdx - (IF w.elType = BSON_DATA_INT THEN 4 ELSE 8) + 1, inIdx)

\* C10: the text fast_itoa hands to ensureSpace and memcpy for an INT or LONG
\* value is the canonical decimal text of the value, n its length, at most 11
\* bytes for an INT and 20 for a LONG.  Stated for the runs in which no
\* allocation fails and no access is out of bounds.
C10_CanonicalDecimal ==
  (pst = "ensure" /\ w.pc = "next" /\ w.elType \in {BSON_DATA_INT, BSON_DATA_LONG}
     /\ allocFails = 0 /\ err = ErrNone /\ ub \subseteq {"signedOverflow"})
    => /\ req.pend = Decimal(ValueRead)
       /\ req.need = Len(req.pend)
       /\ Len(req.pend) <= (IF w.elType = BSON_DATA_INT THEN 11 ELSE 20)

\* the DATE value the walker has just read, its seconds and milliseconds with
\* floor semantics, and three decimal digits
DateRead == SubSeq(cfg.input, inIdx - 7, inIdx)
FloorSeconds(b) ==
  IF IsNegB(b)
    THEN LET q == ToInt(QuotB(NegB(b), 1000))
         IN  IF ModB(NegB(b), 1000) = 0 THEN 0 - q ELSE 0 - q - 1
    ELSE ToInt(QuotB(b, 1000))
FloorMillis(b) ==
  IF IsNegB(b)
    THEN LET m == ModB(NegB(b), 1000) IN IF m = 0 THEN 0 ELSE 1000 - m
    ELSE ModB(b, 1000)
Dec3(v) == <<48 + (v \div 100)>> \o Dec2(v % 100)

\* the walker has stored the quote and the date-time of a DATE whose eight
\* bytes lie in the input, and is about to store '.', the fraction, 'Z', '"'
DateAtomPending ==
  /\ pst = "write" /\ w.pc = "next" /\ w.elType = BSON_DATA_DATE
  /\ Len(req.pend) = 6 /\ ub = {} /\ allocFails = 0 /\ outIdx >= 20

\* C11: the atom written for a DATE is '"', the 19 date-time characters of
\* floor(value / 1000) seconds, '.', the three decimal digits of value mod 1000
\* taken in 0..999, 'Z' and '"': 26 bytes.
C11_DateAtom ==
  DateAtomPending =>
    /\ SubSeq(out, outIdx - 19, outIdx)
         = <<Chr("\"")>> \o StrfTime(FloorSeconds(DateRead))
    /\ req.pend = <<Chr(".")>> \o Dec3(FloorMillis(DateRead)) \o <<Chr("Z"), Chr("\"")>>

\* the producer progresses: it is past the barrier, not in a wait of
\* ensureSpace and has not returned; the consumer progresses: resume() has
\* returned and next() reads inIdx, outIdx and out[0..outIdx]
ProducerProgresses == pst \in {"run", "ensure", "write"}
ConsumerReads == cst \in {"isDone", "deliver"}

\* C12: in PAUSE mode, after start-up, the producer and the consumer never
\* progress at the same time: resume() has not returned to the consumer while
\* the producer still writes out or advances outIdx.  Stated for the runs
\* without spurious wake-ups.
C12_OneAtATime ==
  (cfg.mode = "PAUSE" /\ spurious = 0 /\ Len(chunks) >= 1)
    => ~(ProducerProgresses /\ ConsumerReads)

\* the worker has not passed the barrier of transcode
StartingUp == pst \in {"spawn", "barrier", "barrierWait"}

\* C13: in PAUSE mode, while the worker has not passed the start-up barrier it
\* has read no input, and no call of next() has come back from resume():
\* next() has evaluated isDone() for no chunk and delivered none, in
\* particular none of outLen + 1 bytes.
C13_StartUpBarrier ==
  (cfg.mode = "PAUSE" /\ StartingUp)
    => /\ inIdx = 0
       /\ cst \in {"idle", "notify", "lock", "waiting"}
       /\ chunks = <<>> /\ ~final

\* a step in which ensureSpace(req.need) returns false: the walker goes on
\* with the request it made
EnsureReturnsOk ==
  /\ pst \in {"ensure", "ensureLock", "ensureWait"}
  /\ pst' \in {"run", "write"}
  /\ req' = req

\* C14: whenever ensureSpace(n) returns false, out is allocated and at least n
\* bytes lie between outIdx and outLen.  Stated for the runs in which no
\* allocation has failed.
C14_EnsuredSpace ==
  [][(EnsureReturnsOk /\ allocFails' = 0 /\ err = ErrNone)
       => (~outNull' /\ outIdx' + req.need <= outLen')]_vars

\* transcodeObject has accepted the size of a document, at the top or nested,
\* and asks for the byte of its opening bracket
DocumentOpened ==
  /\ pst = "ensure" /\ w.pc = "elem" /\ inIdx >= 4
  /\ ub = {} /\ allocFails = 0 /\ err = ErrNone

\* the size declared by the document just opened, and the index of its first byte
DeclaredSize == S32(SubSeq(cfg.input, inIdx - 3, inIdx))
DocumentStart == inIdx - 4

\* C15: at every nesting level a document is opened only if its declared size
\* is at least 5 and at most the input bytes remaining at its position.
C15_SizeWithinRemaining ==
  DocumentOpened =>
    /\ DeclaredSize >= 5
    /\ DeclaredSize <= inLen - DocumentStart

=============================================================================
